---------------------------- MODULE Spec2Model ----------------------------
(***************************************************************************)
(* Model of src/app.py: the LLM client call_llm and the Flask handler      *)
(* index of the route "/".                                                 *)
(*                                                                         *)
(* Text.  A Python string is a sequence of symbols.  Every string literal  *)
(* of the source is one symbol (its Cyrillic literals are written in       *)
(* transliteration, since a module is ASCII), the line feed is a symbol of *)
(* its own, and the text typed by the user or produced by the provider is  *)
(* a sequence over Alphabet.  An f-string is the concatenation of its      *)
(* parts, each formatted by Format (str() of the value).                   *)
(*                                                                         *)
(* Values.  A Python value is a record [k, s]: k is its type and s its     *)
(* str() form, which for a str is the string itself.                       *)
(***************************************************************************)
EXTENDS Naturals, Sequences, FiniteSets, TLC

\* Longest text typed into the form or given to call_llm by a direct caller.
MaxLen == 2

---------------------------------------------------------------------------
\* Symbols

NL == "\n"
QUOTE == "\""
BSLASH == "\\"

\* Symbols of the text typed by a user: an ordinary letter and the three
\* characters JSON has to escape.
Alphabet == {"n", NL, QUOTE, BSLASH}

\* app.py:38   "Ошибка при обращении к LLM API: "
ERROR_PREFIX == "Oshibka pri obrashchenii k LLM API: "
\* app.py:35   "Нет ответа от модели."
NO_RESPONSE == "Net otveta ot modeli."
\* app.py:53   "Переведи следующий текст на "
TRANSLATE_HEAD == "Perevedi sleduyushchiy tekst na "
\* app.py:61   "Оригинал: " and "Перевод: "
ORIGINAL_LABEL == "Original: "
TRANSLATION_LABEL == "Perevod: "
\* app.py:62   "Оцени качество перевода от 1 до 10 и аргументируй."
JUDGE_TAIL == "Oceni kachestvo perevoda ot 1 do 10 i argumentiruy."

\* The literals above that are not ASCII in the source.
NonAscii ==
    {ERROR_PREFIX, NO_RESPONSE, TRANSLATE_HEAD, ORIGINAL_LABEL,
     TRANSLATION_LABEL, JUDGE_TAIL}

TRANSLATE_MODEL == "Qwen/Qwen3-VL-30B-A3B-Instruct"
JUDGE_MODEL == "claude-sonnet-4-5-20250929"

---------------------------------------------------------------------------
\* Python values

Str(s) == [k |-> "str", s |-> s]
PyNone == [k |-> "NoneType", s |-> <<"None">>]
PyInt5 == [k |-> "int", s |-> <<"5">>]

\* The text an f-string puts in place of {v}.
Format(v) == v.s

\* All texts over Alphabet of length at most n.
Texts(n) == UNION {[1..m -> Alphabet] : m \in 0..n}

---------------------------------------------------------------------------
\* JSON text, as requests writes it (json.dumps) and as the provider reads it

RECURSIVE JsonEscape(_)
JsonEscape(s) ==
    IF s = <<>> THEN <<>>
    ELSE LET c == Head(s)
             e == IF c = QUOTE THEN <<BSLASH, QUOTE>>
                  ELSE IF c = BSLASH THEN <<BSLASH, BSLASH>>
                  ELSE IF c = NL THEN <<BSLASH, "n">>
                  ELSE IF c \in NonAscii THEN <<BSLASH, "u", c>>
                  ELSE <<c>>
         IN e \o JsonEscape(Tail(s))

JsonString(s) == <<QUOTE>> \o JsonEscape(s) \o <<QUOTE>>

\* data: the dict as a sequence of <<key, value>> pairs, in insertion order.
RECURSIVE JsonMembers(_)
JsonMembers(data) ==
    IF data = <<>> THEN <<>>
    ELSE JsonString(data[1][1]) \o <<": ">> \o JsonString(data[1][2])
         \o (IF Len(data) > 1 THEN <<", ">> ELSE <<>>)
         \o JsonMembers(Tail(data))

JsonDumps(data) == <<"{">> \o JsonMembers(data) \o <<"}">>

\* Reads a string literal whose opening quote is before position i.
RECURSIVE ReadString(_, _, _)
ReadString(t, i, acc) ==
    IF i > Len(t) THEN [ok |-> FALSE, s |-> acc, next |-> i]
    ELSE IF t[i] = QUOTE THEN [ok |-> TRUE, s |-> acc, next |-> i + 1]
    ELSE IF t[i] = BSLASH THEN
        IF i + 1 > Len(t) THEN [ok |-> FALSE, s |-> acc, next |-> i]
        ELSE IF t[i + 1] = "n" THEN ReadString(t, i + 2, Append(acc, NL))
        ELSE IF t[i + 1] \in {QUOTE, BSLASH}
            THEN ReadString(t, i + 2, Append(acc, t[i + 1]))
        ELSE IF t[i + 1] = "u" /\ i + 2 <= Len(t)
            THEN ReadString(t, i + 3, Append(acc, t[i + 2]))
        ELSE [ok |-> FALSE, s |-> acc, next |-> i]
    ELSE ReadString(t, i + 1, Append(acc, t[i]))

\* Reads the members of an object from position i, where a key must open.
RECURSIVE ReadMembers(_, _, _)
ReadMembers(t, i, acc) ==
    LET bad == [ok |-> FALSE, members |-> acc] IN
    IF i > Len(t) \/ t[i] # QUOTE THEN bad
    ELSE LET key == ReadString(t, i + 1, <<>>) IN
         IF ~key.ok \/ key.next + 1 > Len(t) \/ t[key.next] # ": "
            \/ t[key.next + 1] # QUOTE THEN bad
         ELSE LET val == ReadString(t, key.next + 2, <<>>)
                  got == Append(acc, <<key.s, val.s>>)
              IN IF ~val.ok \/ val.next > Len(t) THEN bad
                 ELSE IF t[val.next] = "}" /\ val.next = Len(t)
                     THEN [ok |-> TRUE, members |-> got]
                 ELSE IF t[val.next] = ", "
                     THEN ReadMembers(t, val.next + 1, got)
                 ELSE bad

\* The object a JSON text denotes: its members in order, or ok = FALSE.
JsonLoads(t) ==
    IF Len(t) < 2 \/ t[1] # "{" THEN [ok |-> FALSE, members |-> <<>>]
    ELSE IF Len(t) = 2 /\ t[2] = "}" THEN [ok |-> TRUE, members |-> <<>>]
    ELSE ReadMembers(t, 2, <<>>)


---------------------------------------------------------------------------
\* The environment and the provider

\* os.environ restricted to the key the program reads: the variable is unset,
\* set to the empty string, or set to a key.
Environs ==
    {[n \in D |-> v] : D \in SUBSET {"MENTORPIECE_API_KEY"},
                       v \in {<<>>, <<"k">>}}

\* os.getenv(name): None when the variable is unset.
Getenv(environ, name) ==
    IF name \in DOMAIN environ THEN Str(environ[name]) ELSE PyNone

\* The values a provider puts in the "response" field: JSON strings (one of
\* them with characters JSON escapes), a JSON number and JSON null.
ResponseValues == {Str(<<>>), Str(<<QUOTE, "n">>), PyInt5, PyNone}

NotJson == [t |-> "notjson", has |-> FALSE, v |-> PyNone]
JsonArray == [t |-> "array", has |-> FALSE, v |-> PyNone]
JsonObject(has, v) == [t |-> "object", has |-> has, v |-> v]

\* The body of a reply: not JSON, a JSON value that is no object (a list), an
\* object without "response", an object with it.
Bodies ==
    {NotJson, JsonArray, JsonObject(FALSE, PyNone)}
    \cup {JsonObject(TRUE, x) : x \in ResponseValues}

\* The final status of a reply (after redirects are followed): success, a
\* redirection status that is not followed (300 Multiple Choices), a client
\* error, a server error.
Statuses == {200, 300, 404, 500}

\* What happens to one POST: the connection is refused, the read times out,
\* or a reply arrives.
Outcomes ==
    {[net |-> n, status |-> 0, body |-> NotJson] : n \in {"refused", "timeout"}}
    \cup {[net |-> "reply", status |-> s, body |-> b] :
             s \in Statuses, b \in Bodies}

---------------------------------------------------------------------------
\* call_llm

\* headers: app.py:23-26.
Headers(key) ==
    [Authorization |-> <<"Bearer ">> \o Format(key),
     ContentType |-> <<"application/json">>]

\* A variant of data that strips the prompt's trailing line feeds.
RECURSIVE RStrip(_)
RStrip(s) ==
    IF s # <<>> /\ s[Len(s)] = NL THEN RStrip(SubSeq(s, 1, Len(s) - 1)) ELSE s

RequestDataStripped(model_name, prompt) ==
    << << <<"model_name">>, model_name >>, << <<"prompt">>, RStrip(prompt) >> >>

\* data: app.py:27-30.
RequestData(model_name, prompt) ==
    << << <<"model_name">>, model_name >>, << <<"prompt">>, prompt >> >>

\* The request requests.post sends (app.py:32); model_name and prompt record
\* the arguments of the call.
Request(key, model_name, prompt) ==
    [model_name |-> model_name,
     prompt |-> prompt,
     headers |-> Headers(key),
     body |-> JsonDumps(RequestData(model_name, prompt)),
     timeout |-> 30]

\* A variant of raise_for_status that raises for server errors only.
RaisesForStatusServerOnly(status) == status \in 500..599

\* response.raise_for_status() (app.py:33): raises HTTPError for 4xx and 5xx.
RaisesForStatus(status) == status \in 400..599

\* str(e) of the RequestException the outcome raises.
ExceptionText(o) ==
    IF o.net = "refused" THEN <<"Connection refused">>
    ELSE IF o.net = "timeout" THEN <<"Read timed out">>
    ELSE IF RaisesForStatus(o.status)
        THEN <<ToString(o.status),
               IF o.status < 500 THEN " Client Error" ELSE " Server Error">>
    ELSE <<"Expecting value">>

\* How call_llm ends for an outcome (app.py:31-38).  raised: an exception
\* leaves call_llm; failed: the except clause built the result.
\*  - requests.post raises ConnectionError or Timeout: caught;
\*  - raise_for_status raises HTTPError: caught;
\*  - response.json() raises requests' JSONDecodeError, a RequestException
\*    (requests 2.27 and later): caught;
\*  - result.get on a JSON value that is no object raises AttributeError,
\*    which is no RequestException: not caught;
\*  - otherwise result.get("response", NO_RESPONSE) is returned as it is.
CallReturn(o) ==
    LET error == [raised |-> FALSE, failed |-> TRUE,
                  value |-> Str(<<ERROR_PREFIX>> \o ExceptionText(o))]
    IN IF o.net # "reply" THEN error
       ELSE IF RaisesForStatus(o.status) THEN error
       ELSE IF o.body.t = "notjson" THEN error
       ELSE IF o.body.t # "object"
           THEN [raised |-> TRUE, failed |-> FALSE, value |-> PyNone]
       ELSE [raised |-> FALSE, failed |-> FALSE,
             value |-> IF o.body.has THEN o.body.v ELSE Str(<<NO_RESPONSE>>)]

---------------------------------------------------------------------------
\* index

LangCodes == {<<"en">>, <<"fr">>, <<"de">>, <<"xx">>}

\* request.form: each of the two fields is present or missing.
Forms ==
    {[n \in D |-> IF n = "original_text" THEN t ELSE l] :
        D \in SUBSET {"original_text", "language"},
        t \in Texts(MaxLen), l \in LangCodes}

\* request.form.get(name, default).
FormGet(f, name, default) == IF name \in DOMAIN f THEN f[name] ELSE default

\* A variant of the lookup that keeps an unknown code as it is.
LangMapGetNoDefault(code, default) ==
    IF code = <<"en">> THEN <<"English">>
    ELSE IF code = <<"fr">> THEN <<"French">>
    ELSE IF code = <<"de">> THEN <<"German">>
    ELSE code

\* lang_map.get(code, default): app.py:51-52.
LangMapGet(code, default) ==
    IF code = <<"en">> THEN <<"English">>
    ELSE IF code = <<"fr">> THEN <<"French">>
    ELSE IF code = <<"de">> THEN <<"German">>
    ELSE default

\* translate_prompt: app.py:53.
TranslatePrompt(target_lang, text) ==
    <<TRANSLATE_HEAD>> \o target_lang \o <<":", NL>> \o Format(text)

\* judge_prompt: app.py:60-63.
JudgePrompt(text, translation) ==
    <<ORIGINAL_LABEL>> \o Format(text) \o <<NL, TRANSLATION_LABEL>>
    \o Format(translation) \o <<NL, JUDGE_TAIL>>

\* The arguments of render_template: app.py:69-75.
View(o, t, v, l) ==
    [original_text |-> o, translated_text |-> t, verdict |-> v,
     selected_lang |-> l]

EmptyView == View(Str(<<>>), Str(<<>>), Str(<<>>), Str(<<>>))

VARIABLES
    API_KEY,          \* the module global read once at import
    pc,               \* "idle", the call the program is blocked in, or "done"
    method,           \* request.method, or "call_llm" for a direct call
    form,             \* request.form of the request being handled
    original_text,    \* the locals of index
    translated_text,
    verdict,
    selected_lang,
    sent,             \* the requests posted for the current entry, in order
    returns,          \* how the calls of call_llm of the current entry ended
    lastCall,         \* the outcome of the call that ended last
    response          \* what the handler answered: a page, or an error

vars ==
    <<API_KEY, pc, method, form, original_text, translated_text, verdict,
      selected_lang, sent, returns, lastCall, response>>

\* The initial values of the locals: app.py:42-45.
IndexLocals == View(Str(<<>>), Str(<<>>), Str(<<>>), Str(<<"en">>))

\* A variant of the test that takes every request for a submission.
IsSubmissionAlways(m) == TRUE

\* request.method == 'POST': app.py:46.
IsSubmission(m) == m = "POST"

NoResponse == [status |-> "none", view |-> EmptyView]
\* An exception that leaves index: Flask answers 500 and renders nothing.
ErrorResponse == [status |-> "error", view |-> EmptyView]
Page(view) == [status |-> "page", view |-> view]

\* The requests sent and not yet answered.
InFlight == Len(sent) - Len(returns)

Init ==
    /\ \E environ \in Environs :
           API_KEY = Getenv(environ, "MENTORPIECE_API_KEY")
    /\ pc = "idle"
    /\ method = "none"
    /\ form = <<>>
    /\ original_text = IndexLocals.original_text
    /\ translated_text = IndexLocals.translated_text
    /\ verdict = IndexLocals.verdict
    /\ selected_lang = IndexLocals.selected_lang
    /\ sent = <<>>
    /\ returns = <<>>
    /\ lastCall = [done |-> FALSE, outcome |-> CHOOSE o \in Outcomes : TRUE]
    /\ response = NoResponse

\* index, entered with request.method m and request.form f: the whole handler
\* for a GET (app.py:41-46, 69-75); for a POST, up to the point where the
\* first call_llm blocks in requests.post (app.py:41-58).
Index(m, f) ==
    /\ pc = "idle"
    /\ method' = m
    /\ form' = f
    /\ returns' = <<>>
    /\ LET L == IndexLocals IN
       IF IsSubmission(m)
       THEN LET text == Str(FormGet(f, "original_text", <<>>))
                lang == Str(FormGet(f, "language", <<"en">>))
                target_lang == LangMapGet(Format(lang), <<"English">>)
                translate_prompt == TranslatePrompt(target_lang, text)
            IN /\ original_text' = text
               /\ selected_lang' = lang
               /\ translated_text' = L.translated_text
               /\ verdict' = L.verdict
               /\ sent' = <<Request(API_KEY, <<TRANSLATE_MODEL>>,
                                    translate_prompt)>>
               /\ response' = NoResponse
               /\ pc' = "translate"
       ELSE /\ original_text' = L.original_text
            /\ translated_text' = L.translated_text
            /\ verdict' = L.verdict
            /\ selected_lang' = L.selected_lang
            /\ sent' = <<>>
            /\ response' = Page(View(L.original_text, L.translated_text,
                                     L.verdict, L.selected_lang))
            /\ pc' = "done"
    /\ UNCHANGED <<API_KEY, lastCall>>

\* The first call_llm ends; index goes on to the point where the second one
\* blocks (app.py:55-67), or the exception leaves index.
TranslateReturn(o) ==
    /\ pc = "translate"
    /\ LET r == CallReturn(o) IN
        /\ returns' = Append(returns, r)
        /\ lastCall' = [done |-> TRUE, outcome |-> o]
        /\ IF r.raised
           THEN /\ pc' = "done"
                /\ response' = ErrorResponse
                /\ UNCHANGED <<translated_text, sent>>
           ELSE /\ translated_text' = r.value
                /\ sent' = Append(sent,
                       Request(API_KEY, <<JUDGE_MODEL>>,
                               JudgePrompt(original_text, r.value)))
                /\ pc' = "judge"
                /\ UNCHANGED response
    /\ UNCHANGED <<API_KEY, method, form, original_text, verdict,
                   selected_lang>>

\* The second call_llm ends; index renders the page (app.py:64-75), or the
\* exception leaves index.
JudgeReturn(o) ==
    /\ pc = "judge"
    /\ LET r == CallReturn(o) IN
        /\ returns' = Append(returns, r)
        /\ lastCall' = [done |-> TRUE, outcome |-> o]
        /\ IF r.raised
           THEN /\ response' = ErrorResponse
                /\ UNCHANGED verdict
           ELSE /\ verdict' = r.value
                /\ response' = Page(View(original_text, translated_text,
                                         r.value, selected_lang))
    /\ pc' = "done"
    /\ UNCHANGED <<API_KEY, method, form, original_text, translated_text,
                   selected_lang, sent>>

ModelNames == {<<"m">>, <<QUOTE, "m">>}

\* call_llm called by a caller other than index (the unit tests call it so),
\* up to the point where it blocks in requests.post: app.py:16-32.
DirectCall(model_name, prompt) ==
    /\ pc = "idle"
    /\ method' = "call_llm"
    /\ sent' = <<Request(API_KEY, model_name, prompt)>>
    /\ returns' = <<>>
    /\ pc' = "direct"
    /\ UNCHANGED <<API_KEY, form, original_text, translated_text, verdict,
                   selected_lang, lastCall, response>>

\* That call ends: app.py:32-38.
DirectReturn(o) ==
    /\ pc = "direct"
    /\ returns' = Append(returns, CallReturn(o))
    /\ lastCall' = [done |-> TRUE, outcome |-> o]
    /\ pc' = "done"
    /\ UNCHANGED <<API_KEY, method, form, original_text, translated_text,
                   verdict, selected_lang, sent, response>>

\* The answer is delivered and the program waits for the next request: the
\* request and the frame of index are gone; API_KEY stays.
Teardown ==
    /\ pc = "done"
    /\ pc' = "idle"
    /\ method' = "none"
    /\ form' = <<>>
    /\ original_text' = IndexLocals.original_text
    /\ translated_text' = IndexLocals.translated_text
    /\ verdict' = IndexLocals.verdict
    /\ selected_lang' = IndexLocals.selected_lang
    /\ sent' = <<>>
    /\ returns' = <<>>
    /\ response' = NoResponse
    /\ UNCHANGED <<API_KEY, lastCall>>

Next ==
    \/ Index("GET", <<>>)
    \/ \E f \in Forms : Index("POST", f)
    \/ \E o \in Outcomes : TranslateReturn(o)
    \/ \E o \in Outcomes : JudgeReturn(o)
    \/ \E m \in ModelNames, p \in Texts(MaxLen) : DirectCall(m, p)
    \/ \E o \in Outcomes : DirectReturn(o)
    \/ Teardown

Spec == Init /\ [][Next]_vars

---------------------------------------------------------------------------
\* Vocabulary of the properties

\* How the call of call_llm that ended last ended; lastCall.outcome is what
\* the provider did to it.
LastReturn == returns[Len(returns)]

\* The value is a Python str.
IsStr(v) == v.k = "str"

\* A string made of the error prefix followed by the failure's details.
HasErrorMarker(v) == IsStr(v) /\ Len(v.s) >= 2 /\ v.s[1] = ERROR_PREFIX

\* The fields of the submitted form, with the defaults the specification
\* gives for a missing field.
SubmittedText ==
    IF "original_text" \in DOMAIN form THEN form["original_text"] ELSE <<>>
SubmittedCode ==
    IF "language" \in DOMAIN form THEN form["language"] ELSE <<"en">>

\* The display name the specification gives for a language code.
DisplayName(code) ==
    CASE code = <<"en">> -> "English"
      [] code = <<"fr">> -> "French"
      [] code = <<"de">> -> "German"
      [] OTHER -> "English"

---------------------------------------------------------------------------
\* C1: call_llm always returns a string and never raises, for every provider
\* outcome: a 2xx reply with any JSON value as body (an object whose
\* "response" has any JSON type, an object without it, a non-object), a
\* non-2xx reply, a connection failure, a timeout, a body that is not JSON.
\* The code raises AttributeError for a body that is no object and returns a
\* non-string for a "response" that is no string.
C1_AlwaysReturnsString ==
    returns # <<>> => ~LastReturn.raised /\ IsStr(LastReturn.value)

C3_SuccessReturnsResponseField ==
    LET o == lastCall.outcome IN
    (returns # <<>> /\ o.net = "reply" /\ o.status \in 200..299
        /\ o.body.t # "notjson")
    => /\ ~LastReturn.raised
       /\ LastReturn.value =
              (IF o.body.t = "object" /\ o.body.has
               THEN o.body.v ELSE Str(<<NO_RESPONSE>>))
       /\ ~HasErrorMarker(LastReturn.value)

\* C4: for every configured api_key, the empty string and an unset
\* MENTORPIECE_API_KEY included, the Authorization header of every request
\* is "Bearer " followed by the key; an empty or unset key gives "Bearer ".
\* The code sends "Bearer None" when the variable is unset.
C4_AuthorizationIsBearerKey ==
    \A i \in DOMAIN sent :
        sent[i].headers.Authorization =
            <<"Bearer ">> \o (IF IsStr(API_KEY) THEN API_KEY.s ELSE <<>>)

\* C5: for every (model_name, prompt), the JSON body call_llm sends denotes
\* exactly the object with the two fields model_name and prompt, whose values
\* are the arguments unmodified, whatever the prompt's length.
C5_BodyIsExactlyData ==
    \A i \in DOMAIN sent :
        LET j == JsonLoads(sent[i].body) IN
        /\ j.ok
        /\ Len(j.members) = 2
        /\ {j.members[k] : k \in 1..2} =
               { << <<"model_name">>, sent[i].model_name >>,
                 << <<"prompt">>, sent[i].prompt >> }

\* call_llm has sent the empty prompt under a model name that JSON escapes.
C5_Witness ==
    /\ pc = "direct"
    /\ sent[1].prompt = <<>>
    /\ sent[1].model_name = <<QUOTE, "m">>

\* C6: handling one submission issues exactly two requests, never more and
\* never fewer: the translation request, then the judge request, the second
\* only after the first call returned, so that at most one is in flight.
\* The code issues one request only when the translation call raises.
C6_ExactlyTwoRequests ==
    /\ InFlight <= 1
    /\ method = "POST" =>
        /\ Len(sent) <= 2
        /\ Len(sent) >= 1 => sent[1].model_name = <<TRANSLATE_MODEL>>
        /\ Len(sent) = 2 =>
               sent[2].model_name = <<JUDGE_MODEL>> /\ Len(returns) >= 1
        /\ pc = "done" => Len(sent) = 2

\* C7: the translation prompt of a submission contains exactly the display
\* name its language code resolves to (English for an unknown code and for a
\* missing field) and ends with the submitted original_text unchanged.
C7_PromptNamesLanguage ==
    (method = "POST" /\ sent # <<>>) =>
        LET p == sent[1].prompt
            name == DisplayName(SubmittedCode)
            n == Len(SubmittedText)
        IN /\ \E i \in DOMAIN p : p[i] = name
           /\ \A i \in DOMAIN p :
                  p[i] \in {"English", "French", "German"} => p[i] = name
           /\ Len(p) > n
           /\ SubSeq(p, Len(p) - n + 1, Len(p)) = SubmittedText

\* A submission with an unknown code and an empty text has sent its
\* translation request.
C7_Witness ==
    /\ method = "POST"
    /\ pc = "translate"
    /\ "language" \in DOMAIN form
    /\ form["language"] = <<"xx">>
    /\ SubmittedText = <<>>
    /\ Len(sent) = 1

\* C8: every submission is answered by the page rendered with the submitted
\* text (empty if missing), the string the first call returned, the string
\* the second call returned and the submitted code itself ("en" if missing);
\* no error.  The code answers with an error when a call raises, and renders
\* a non-string when a call returns one.
C8_SubmissionRendersViewModel ==
    (method = "POST" /\ pc = "done") =>
        /\ response.status = "page"
        /\ Len(returns) = 2
        /\ IsStr(returns[1].value) /\ IsStr(returns[2].value)
        /\ response.view =
               View(Str(SubmittedText), returns[1].value, returns[2].value,
                    Str(SubmittedCode))

\* C9: a GET renders the page with original_text, translated_text and
\* verdict empty and the language "en", whatever was handled before, and
\* issues no request to the provider.
C9_GetRendersEmptyForm ==
    method = "GET" =>
        /\ pc = "done"
        /\ response.status = "page"
        /\ response.view.original_text = Str(<<>>)
        /\ response.view.translated_text = Str(<<>>)
        /\ response.view.verdict = Str(<<>>)
        /\ response.view.selected_lang = Str(<<"en">>)
        /\ sent = <<>>

\* A GET has been answered after a call to the provider had ended.
C9_Witness ==
    method = "GET" /\ pc = "done" /\ lastCall.done /\ response.status = "page"

\* C10: when the translation call returns an error string, the judge request
\* is still issued, its prompt embeds the submitted text and that error
\* string verbatim, and the page is rendered with the error string as
\* translated_text and the judge call's result as verdict.  The code renders
\* no page when the judge call raises.
C10_FailedTranslationIsJudged ==
    (method = "POST" /\ returns # <<>> /\ returns[1].failed) =>
        /\ Len(sent) = 2
        /\ sent[2].prompt =
               <<ORIGINAL_LABEL>> \o SubmittedText \o <<NL, TRANSLATION_LABEL>>
               \o returns[1].value.s \o <<NL, JUDGE_TAIL>>
        /\ pc = "done" =>
               /\ response.status = "page"
               /\ response.view.translated_text = returns[1].value
               /\ response.view.verdict = returns[2].value

=============================================================================
